---- MODULE Spec2Model ----
(***************************************************************************)
(* Browser client of simple_tickets: the fetch wrapper apiRequest and the  *)
(* admin / client list controllers that call it (auth.js and the clients   *)
(* script, which is the same code with "client" for "admin").              *)
(*                                                                         *)
(* JavaScript runs one task at a time, and an async function gives up the  *)
(* thread only at an await.  Every action below is one such run: from the  *)
(* event that resumes a flow (a call, a settled fetch, a click, a timer)   *)
(* to the next await of that flow or to its end.                           *)
(*                                                                         *)
(* Two things bound what is explored.  The user acts on a settled page: an *)
(* operation is started, and a modal is clicked, only while no request of  *)
(* the page is in flight (timers and the navigation are not held back).    *)
(* Flows therefore overlap where the code suspends them for the user, at   *)
(* the confirmation dialog.  And the record of a flow that has ended is    *)
(* kept only until another flow moves; what a flow left in the document    *)
(* (modals, table body, location) stays.                                   *)
(*                                                                         *)
(* Spec is the page.  SpecRender is one load of the list with collections  *)
(* long enough to show the order of the rows.  SpecScript is the token     *)
(* shell script: its two globals and the functions that run on them.       *)
(***************************************************************************)
EXTENDS Integers, Sequences, FiniteSets, TLC

\* ------------------------------------------------------------------ bounds
MaxOps   == 2    \* operations started on one page
MaxId    == 1    \* record ids are 1..MaxId
MaxItems == 1    \* longest collection the list endpoint returns

Ops   == 1..MaxOps
Ids   == 1..MaxId

\* ------------------------------------------------------------ the page
VARIABLES
    cookies,     \* document.cookie, a sequence of name=value pairs
    resource,    \* which page this is: "admins" (auth.js) or "clients"
    location,    \* window.location.href: "page" or "/login"
    unloaded,    \* the navigation to /login has replaced the page
    ops,         \* the flows of the async functions, one record per call
    dialogs,     \* the confirm modals in document.body, in document order
    timers,      \* flows whose setTimeout(() => modalDiv.remove()) is pending
    view         \* the table body as last rendered

\* ------------------------------------------------------ the token script
VARIABLES
    ACCESS_TOKEN,    \* the global of the shell script
    REFRESH_TOKEN,   \* the global of the shell script
    sh               \* the function the shell ran last, and how it went

page   == <<cookies, resource, location, unloaded, ops, dialogs, timers, view>>
script == <<ACCESS_TOKEN, REFRESH_TOKEN, sh>>
vars   == <<cookies, resource, location, unloaded, ops, dialogs, timers, view,
            ACCESS_TOKEN, REFRESH_TOKEN, sh>>

\* ---------------------------------------------------------------- cookies
NULL == "<null>"

\* a value is truthy in JavaScript unless it is null, undefined or ''
Truthy(v) == v \notin {NULL, ""}

RECURSIVE FirstCookie(_, _)
\* the for-loop of getAccessToken / getRefreshToken: the value of the first
\* cookie of that name, null when there is none
FirstCookie(jar, name) ==
    IF jar = <<>> THEN NULL
    ELSE IF Head(jar).name = name THEN Head(jar).value
    ELSE FirstCookie(Tail(jar), name)

getAccessToken  == FirstCookie(cookies, "access_token")
getRefreshToken == FirstCookie(cookies, "refresh_token")

Cookie(n, v) == [name |-> n, value |-> v]

\* the cookie jars a page can be loaded with: no token at all, an access
\* token only, an empty access_token= next to a refresh token, and both
CookieJars ==
    { << Cookie("theme", "dark") >>,
      << Cookie("access_token", "a1") >>,
      << Cookie("access_token", ""), Cookie("refresh_token", "r1") >>,
      << Cookie("refresh_token", "r1"), Cookie("access_token", "a1") >> }

\* ------------------------------------------------------------- responses
Statuses == {200, 401, 500}       \* an ok, the expired-token and a failing status
NetErr   == 0                     \* fetch rejected: the request never completed

\* Response.ok
Ok(status) == status >= 200 /\ status <= 299

\* ------------------------------------------------------------ flow records
\* what apiRequest handed back to its caller
Pending   == [tag |-> "pending",   status |-> 0]
Undefined == [tag |-> "undefined", status |-> 0]     \* the bare `return;`
Threw     == [tag |-> "threw",     status |-> 0]     \* the promise rejected
Response(status) == [tag |-> "response", status |-> status]

IdleOp ==
    [ kind      |-> "none",     \* api, load, get, create, update, delete
      pub       |-> FALSE,      \* options.public
      id        |-> 0,          \* adminId / clientId
      pc        |-> "idle",     \* the await the flow is suspended at
      stage     |-> "main",     \* "reload" once deleteAdmin has called loadAdmins
      confirmed |-> "na",       \* the promise of confirmDialog
      primary   |-> <<>>,       \* how the primary fetch of this call settled
      refresh   |-> <<>>,       \* how the refresh fetch of this call settled
      ret       |-> Pending,    \* what apiRequest returned
      rets      |-> <<>>,       \* what the calls of apiRequest returned, in order
      out       |-> "pending",  \* how the operation ended: returned / threw
      val       |-> "none",     \* the value the operation returned
      json      |-> <<>>,       \* how response.json() of the list settled
      log       |-> <<>>,       \* what the flow did, in order
      reqs      |-> <<>>,       \* the HTTP calls it sent
      notes     |-> <<>> ]      \* the notifications it showed

Log(r, e) == [r EXCEPT !.log = Append(@, e)]

RECURSIVE Count(_, _)
Count(s, e) ==
    IF s = <<>> THEN 0
    ELSE (IF Head(s) = e THEN 1 ELSE 0) + Count(Tail(s), e)

\* the part of the log that belongs to the latest apiRequest call
RECURSIVE CallLog(_)
CallLog(s) ==
    IF s = <<>> THEN <<>>
    ELSE IF s[Len(s)] = "call" THEN <<"call">>
    ELSE Append(CallLog(SubSeq(s, 1, Len(s) - 1)), s[Len(s)])

\* endpoints: /{resource}/ and /{resource}/{id}, and /refresh
ListPath     == [res |-> resource, id |-> 0]
ItemPath(id) == [res |-> resource, id |-> id]
RefreshPath  == [res |-> "refresh", id |-> 0]

\* ------------------------------------------------------------ apiRequest
\* window.location.href = '/login'
Redirect(r) == Log(r, "redirect")

\* fetch(`${API_BASE_URL}${endpoint}`, ...) with the Authorization header
\* set when there is a token
Fetch(r, method, path, token) ==
    [Log(r, "fetch") EXCEPT
        !.reqs = Append(@, [method |-> method, path |-> path,
                            bearer |-> IF Truthy(token) THEN token ELSE NULL,
                            body |-> NULL])]

\* fetch(`${API_BASE_URL}/refresh`, {method: 'POST', body: {refresh_token}})
FetchRefresh(r, refreshToken) ==
    [Log(r, "refresh") EXCEPT
        !.reqs = Append(@, [method |-> "POST", path |-> RefreshPath,
                            bearer |-> NULL, body |-> refreshToken])]

Return(r, v) == [r EXCEPT !.ret = v, !.rets = Append(@, v), !.pc = "ret"]

\* the guard with the public flag inverted
NeedsLogin_PublicOnly(token, public) == ~Truthy(token) /\ public

\* if (!token && !options.public)
NeedsLogin(token, public) == ~Truthy(token) /\ ~public

\* the 401 test without the public flag
Expired_AnyCall(status, public) == status = 401

\* every failing status taken for an expired token
Expired_NotOk(status, public) == ~Ok(status) /\ ~public

\* if (response.status === 401 && !options.public)
Expired(status, public) == status = 401 /\ ~public

\* the refresh call succeeded and its body parsed: "For now, redirect to login"
OnRefreshOk(r) == Redirect(r)

\* the failure branches without their redirect
OnRefreshFailed_Stay(r) == r

\* the refresh call answered non-ok, or it (or its json()) threw
OnRefreshFailed(r) == Redirect(r)

\* the outer else branch left out
OnNoRefreshToken_Stay(r) == r

\* there is no refresh token
OnNoRefreshToken(r) == Redirect(r)

\* apiRequest from its first line to the first await
apiRequest(r, method, path, public) ==
    LET token == getAccessToken
        c == [Log(r, "call") EXCEPT !.primary = <<>>, !.refresh = <<>>,
                                    !.ret = Pending, !.pub = public]
    IN  IF NeedsLogin(token, public)
        THEN Return(Redirect(c), Undefined)
        ELSE [Fetch(c, method, path, token) EXCEPT !.pc = "fetch"]

\* the primary fetch wrapped in the try/catch of the refresh fetch
apiFetchFailed_Caught(r) ==
    Return(Redirect([r EXCEPT !.primary = Append(@, NetErr)]), Undefined)

\* the primary fetch rejected: nothing around it catches
apiFetchFailed(r) ==
    Return([r EXCEPT !.primary = Append(@, NetErr)], Threw)

\* a 401 sends the user to the login page without trying the refresh token
apiResponse_NoRefresh(r, status) ==
    LET g == [r EXCEPT !.primary = Append(@, status)]
    IN  IF Expired(status, r.pub)
        THEN Return(Redirect(g), Response(status))
        ELSE Return(g, Response(status))

\* the primary fetch resolved with a response of this status
apiResponse(r, status) ==
    LET g == [r EXCEPT !.primary = Append(@, status)]
    IN  IF Expired(status, r.pub)
        THEN LET refreshToken == getRefreshToken
             IN  IF Truthy(refreshToken)
                 THEN [FetchRefresh(g, refreshToken) EXCEPT !.pc = "refresh"]
                 ELSE Return(OnNoRefreshToken(g), Response(status))
        ELSE Return(g, Response(status))

RefreshOutcomes == {"ok", "fail", "neterr"}

\* the refresh fetch settled; the function then returns the primary response
apiRefreshed(r, outcome) ==
    LET g == [Log(r, "refreshed") EXCEPT !.refresh = Append(@, outcome)]
    IN  IF outcome = "ok"
        THEN [g EXCEPT !.pc = "rjson"]
        ELSE Return(OnRefreshFailed(g), Response(g.primary[1]))

\* await refreshResponse.json() settled
apiRefreshJson(r, parsed) ==
    LET g == [r EXCEPT !.refresh = Append(@, IF parsed THEN "parsed" ELSE "badjson")]
    IN  IF parsed
        THEN Return(OnRefreshOk(g), Response(g.primary[1]))
        ELSE Return(OnRefreshFailed(g), Response(g.primary[1]))

\* ------------------------------------------------------ list controller
\* showNotification(message, type)
showNotification(r, message, type) ==
    [Log(r, "notify") EXCEPT
        !.notes = Append(@, [message |-> message, type |-> type])]

Finish(r, out, val) == [r EXCEPT !.pc = "done", !.out = out, !.val = val]

\* what response.json() of the list endpoint can give: null, an array of
\* records (here their ids), or a JSON value that is no array
Arrays == UNION { [1..n -> Ids] : n \in 0..MaxItems }
Bodies == { [kind |-> "null", items |-> <<>>], [kind |-> "object", items |-> <<>>] }
          \cup { [kind |-> "array", items |-> a] : a \in Arrays }

\* one <tr>: the id cell, the edit link and the delete button of that id
Row(item) == [id |-> item, edit |-> item, del |-> item]

EmptyView   == [placeholder |-> FALSE, rows |-> <<>>]
Placeholder == [placeholder |-> TRUE,  rows |-> <<>>]

\* admins.map is not a function: a truthy body without length and map
DisplayThrows(body) == body.kind = "object"

\* the rows in the opposite order
displayAdmins_Reversed(body) ==
    IF body.kind = "null" \/ body.items = <<>>
    THEN Placeholder
    ELSE [placeholder |-> FALSE,
          rows |-> [i \in 1..Len(body.items) |->
                       Row(body.items[Len(body.items) + 1 - i])]]

\* displayAdmins(admins) / displayClients(clients): the new table body
displayAdmins(body) ==
    IF body.kind = "null" \/ body.items = <<>>
    THEN Placeholder
    ELSE [placeholder |-> FALSE,
          rows |-> [i \in 1..Len(body.items) |-> Row(body.items[i])]]

\* the else branch of `if (response.ok)` left out
loadAdminsResumed_Silent(r) ==
    IF r.ret.tag \in {"threw", "undefined"}
    THEN Finish(showNotification(r, "Network error", "danger"),
                "returned", "undefined")
    ELSE IF Ok(r.ret.status)
    THEN [r EXCEPT !.pc = "json"]
    ELSE Finish(r, "returned", "undefined")

\* loadAdmins after `await apiRequest('/admins/')`
loadAdminsResumed(r) ==
    IF r.ret.tag \in {"threw", "undefined"}
    THEN \* a rejected fetch, or response.ok of undefined: the catch block
         Finish(showNotification(r, "Network error", "danger"),
                "returned", "undefined")
    ELSE IF Ok(r.ret.status)
    THEN [r EXCEPT !.pc = "json"]
    ELSE Finish(showNotification(r, "Failed to load", "danger"),
                "returned", "undefined")

\* loadAdmins() / loadClients() up to its first await
loadAdmins(r) ==
    LET a == apiRequest(r, "GET", ListPath, FALSE)
    IN  IF a.pc = "ret" THEN loadAdminsResumed(a) ELSE a

\* loadAdmins after `await response.json()`: parsed says whether it resolved
loadAdminsJson(r, parsed, body) ==
    LET j == [r EXCEPT !.json = Append(@, [parsed |-> parsed, body |-> body])]
    IN  IF parsed /\ ~DisplayThrows(body)
        THEN Finish(Log(j, "render"), "returned", "undefined")
        ELSE Finish(showNotification(j, "Network error", "danger"),
                    "returned", "undefined")

\* createAdmin / updateAdmin (and a direct caller of apiRequest) after the
\* await: `return await apiRequest(...)`
passResumed(r) ==
    IF r.ret.tag = "threw" THEN Finish(r, "threw", "none")
    ELSE Finish(r, "returned", r.ret.tag)

\* getAdmin after `await apiRequest(...)`
getAdminResumed(r) ==
    IF r.ret.tag \in {"threw", "undefined"}
    THEN Finish(r, "threw", "none")      \* nothing catches in getAdmin
    ELSE IF Ok(r.ret.status)
    THEN [r EXCEPT !.pc = "json"]
    ELSE Finish(r, "returned", "null")

\* getAdmin after `await response.json()`
getAdminJson(r, parsed) ==
    IF parsed THEN Finish(r, "returned", "json") ELSE Finish(r, "threw", "none")

\* the answer of the dialog ignored
Proceeds_Always(confirmed) == TRUE

\* if (!confirmed) return;
Proceeds(confirmed) == confirmed

\* the list refreshed after every answer
Reloads_Always(status) == TRUE

\* if (response.ok) { ...; loadAdmins(); }
Reloads(status) == Ok(status)

\* deleteAdmin without its try/catch
deleteAdminResumed_NoCatch(r) ==
    IF r.ret.tag \in {"threw", "undefined"}
    THEN Finish(r, "threw", "none")
    ELSE IF Reloads(r.ret.status)
    THEN loadAdmins([Log(showNotification(r, "deleted successfully", "success"),
                         "reload") EXCEPT !.stage = "reload"])
    ELSE Finish(showNotification(r, "Failed to delete", "danger"),
                "returned", "undefined")

\* deleteAdmin after `await apiRequest(..., {method: 'DELETE'})`
deleteAdminResumed(r) ==
    IF r.ret.tag \in {"threw", "undefined"}
    THEN Finish(showNotification(r, "Network error", "danger"),
                "returned", "undefined")
    ELSE IF Reloads(r.ret.status)
    THEN loadAdmins([Log(showNotification(r, "deleted successfully", "success"),
                         "reload") EXCEPT !.stage = "reload"])
    ELSE Finish(showNotification(r, "Failed to delete", "danger"),
                "returned", "undefined")

\* deleteAdmin after `await confirmDialog(...)`
deleteAdminConfirmed(r, confirmed) ==
    LET c == [r EXCEPT !.confirmed = IF confirmed THEN "yes" ELSE "no"]
    IN  IF ~Proceeds(confirmed)
        THEN Finish(c, "returned", "undefined")
        ELSE LET a == apiRequest(c, "DELETE", ItemPath(c.id), FALSE)
             IN  IF a.pc = "ret" THEN deleteAdminResumed(a) ELSE a

\* the caller of apiRequest runs on from its await
Resumed(r) ==
    IF r.pc # "ret" THEN r
    ELSE IF r.kind = "load" \/ r.stage = "reload" THEN loadAdminsResumed(r)
    ELSE IF r.kind = "delete" THEN deleteAdminResumed(r)
    ELSE IF r.kind = "get" THEN getAdminResumed(r)
    ELSE passResumed(r)

\* ------------------------------------------------- the token script
\* The functions of the script run one after another in one shell, as
\* demo_complete_flow and quick_login run them; the globals live as long as
\* the shell.  curl answers with a body and a status, 0 for curl's 000 when
\* no HTTP answer came.  Bodies hold no '|', the separator that cut splits at.
ScriptStatuses == {0, 200, 401, 500}

\* what a token field of a JSON body can hold; NoField is a body without it
TokenValues == {"", "t1", "t2"}
NoField     == "<absent>"

\* a response body: no JSON at all, or an object with or without the fields
TokenBodies ==
    { [json |-> FALSE, access_token |-> NoField, refresh_token |-> NoField] }
    \cup { [json |-> TRUE, access_token |-> a, refresh_token |-> r] :
             a \in TokenValues \cup {NoField}, r \in TokenValues \cup {NoField} }

\* $(echo "$body" | jq -r '.field'): jq prints null for a field that is not
\* there and the raw string otherwise; on a body that is no JSON it prints
\* nothing on stdout and the substitution is empty
jq(body, field) ==
    IF ~body.json THEN ""
    ELSE IF body[field] = NoField THEN "null"
    ELSE body[field]

\* status_code=$(echo "$response" | cut -d'|' -f2).  In refresh_tokens the
\* empty line after the backslash ends the curl command before its -w, so the
\* response carries no "|status" and cut gives the body back: no number
NotANumber == -1
StatusCode(cmd, status) == IF cmd = "refresh_tokens" THEN NotANumber ELSE status

\* [ "$status_code" -eq n ]: false (with a complaint) when it is no number
Eq(code, n) == code # NotANumber /\ code = n

NoBody == [json |-> FALSE, access_token |-> NoField, refresh_token |-> NoField]
NoCmd  == [cmd |-> "none", rc |-> 0, called |-> FALSE, status |-> 0,
           body |-> NoBody, prevAccess |-> "", prevRefresh |-> ""]

\* function cmd returned rc; called tells whether curl was run
Ran(cmd, rc, called, status, body) ==
    [cmd |-> cmd, rc |-> rc, called |-> called, status |-> status, body |-> body,
     prevAccess |-> ACCESS_TOKEN, prevRefresh |-> REFRESH_TOKEN]

\* the globals as the script file sets them (two literals, here a0 and r0)
ScriptInit ==
    /\ ACCESS_TOKEN = "a0"
    /\ REFRESH_TOKEN = "r0"
    /\ sh = NoCmd

\* the tokens kept whatever the response says
loginTokens_Keep(status, body) == <<ACCESS_TOKEN, REFRESH_TOKEN>>

\* login, the assignments: on 200 both globals are set from the body, before
\* the test for "null"
loginTokens(status, body) ==
    IF Eq(StatusCode("login", status), 200)
    THEN <<jq(body, "access_token"), jq(body, "refresh_token")>>
    ELSE <<ACCESS_TOKEN, REFRESH_TOKEN>>

\* login, the return code
loginRc(status, body) ==
    IF Eq(StatusCode("login", status), 200)
       /\ jq(body, "access_token") # "null" /\ jq(body, "refresh_token") # "null"
    THEN 0 ELSE 1

login(status, body) ==
    /\ ACCESS_TOKEN'  = loginTokens(status, body)[1]
    /\ REFRESH_TOKEN' = loginTokens(status, body)[2]
    /\ sh' = Ran("login", loginRc(status, body), TRUE, status, body)
    /\ UNCHANGED page

\* get_user_info and test_protected_endpoint: GET /users/me with the access
\* token, nothing is assigned
get_user_info(status) ==
    /\ sh' = IF ACCESS_TOKEN = ""
             THEN Ran("get_user_info", 1, FALSE, 0, NoBody)
             ELSE Ran("get_user_info",
                      IF Eq(StatusCode("get_user_info", status), 200) THEN 0 ELSE 1,
                      TRUE, status, NoBody)
    /\ UNCHANGED <<ACCESS_TOKEN, REFRESH_TOKEN>>
    /\ UNCHANGED page

test_protected_endpoint(status) ==
    /\ sh' = IF ACCESS_TOKEN = ""
             THEN Ran("test_protected_endpoint", 1, FALSE, 0, NoBody)
             ELSE Ran("test_protected_endpoint",
                      IF Eq(StatusCode("test_protected_endpoint", status), 200)
                      THEN 0 ELSE 1,
                      TRUE, status, NoBody)
    /\ UNCHANGED <<ACCESS_TOKEN, REFRESH_TOKEN>>
    /\ UNCHANGED page

\* refresh_tokens: POST /refresh with the refresh token
refresh_tokens(status, body) ==
    LET ok  == Eq(StatusCode("refresh_tokens", status), 200)
        NEW_REFRESH_TOKEN == jq(body, "refresh_token")
    IN  IF REFRESH_TOKEN = ""
        THEN /\ sh' = Ran("refresh_tokens", 1, FALSE, 0, NoBody)
             /\ UNCHANGED <<ACCESS_TOKEN, REFRESH_TOKEN>>
             /\ UNCHANGED page
        ELSE /\ ACCESS_TOKEN' = IF ok THEN jq(body, "access_token") ELSE ACCESS_TOKEN
             /\ REFRESH_TOKEN' =
                    IF ok /\ NEW_REFRESH_TOKEN # "null"
                          /\ NEW_REFRESH_TOKEN # REFRESH_TOKEN
                    THEN NEW_REFRESH_TOKEN ELSE REFRESH_TOKEN
             /\ sh' = Ran("refresh_tokens", IF ok THEN 0 ELSE 1, TRUE, status, body)
             /\ UNCHANGED page

\* the tokens cleared only when the server said 200
logoutTokens_OnlyOk(status) ==
    IF Eq(StatusCode("logout", status), 200)
    THEN <<"", "">> ELSE <<ACCESS_TOKEN, REFRESH_TOKEN>>

\* logout after its curl: both branches of the status test clear both globals
logoutTokens(status) ==
    IF Eq(StatusCode("logout", status), 200) THEN <<"", "">> ELSE <<"", "">>

\* logout: without a refresh token it returns 1 before anything else
logout(status) ==
    IF REFRESH_TOKEN = ""
    THEN /\ sh' = Ran("logout", 1, FALSE, 0, NoBody)
         /\ UNCHANGED <<ACCESS_TOKEN, REFRESH_TOKEN>>
         /\ UNCHANGED page
    ELSE /\ ACCESS_TOKEN'  = logoutTokens(status)[1]
         /\ REFRESH_TOKEN' = logoutTokens(status)[2]
         /\ sh' = Ran("logout", 0, TRUE, status, NoBody)
         /\ UNCHANGED page

\* ---------------------------------------------------------------- actions
Init ==
    /\ cookies \in CookieJars
    /\ resource \in {"admins", "clients"}
    /\ location = "page"
    /\ unloaded = FALSE
    /\ ops = [o \in Ops |-> IdleOp]
    /\ dialogs = <<>>
    /\ timers = {}
    /\ view = EmptyView
    /\ ScriptInit

Redirects(r) == Count(r.log, "redirect")

\* the record of a flow that ended before another flow moved
Gone == [IdleOp EXCEPT !.pc = "gone"]

\* no request of the page is in flight: no flow is suspended at an await of
\* fetch or of json()
Settled == \A o \in Ops : ops[o].pc \notin {"fetch", "refresh", "rjson", "json"}

\* the refreshed tokens written over the old cookies
CookiesAfter_Stored(before, after) ==
    IF Len(after.refresh) > Len(before.refresh) /\ after.refresh = <<"ok", "parsed">>
    THEN << Cookie("access_token", "a2"), Cookie("refresh_token", "r2") >>
    ELSE cookies

\* document.cookie after a run of a flow: the code only reads it; `tokens`
\* of the refresh is dropped ("Update cookies (would need server-side help)")
CookiesAfter(before, after) == cookies

\* flow o moves on to record r; an assignment to location.href shows in its log
Step(o, r) ==
    /\ cookies' = CookiesAfter(ops[o], r)
    /\ ops' = [p \in Ops |-> IF p = o THEN r
                             ELSE IF ops[p].pc = "done" THEN Gone
                             ELSE ops[p]]
    /\ location' = IF Redirects(r) > Redirects(ops[o]) THEN "/login" ELSE location
    /\ UNCHANGED script

\* the page is still there and settled; slots are taken in order
CanStart(o) ==
    /\ ~unloaded
    /\ Settled
    /\ ops[o].pc = "idle"
    /\ \A p \in Ops : p < o => ops[p].pc # "idle"

\* some script calls apiRequest(endpoint, {public}) directly
CallApiRequest(o, public) ==
    /\ CanStart(o)
    /\ Step(o, Resumed(apiRequest([ops[o] EXCEPT !.kind = "api"],
                                  "GET", ListPath, public)))
    /\ UNCHANGED <<resource, unloaded, dialogs, timers, view>>

LoadAdmins(o) ==
    /\ CanStart(o)
    /\ Step(o, loadAdmins([ops[o] EXCEPT !.kind = "load"]))
    /\ UNCHANGED <<resource, unloaded, dialogs, timers, view>>

GetAdmin(o, id) ==
    /\ CanStart(o)
    /\ Step(o, Resumed(apiRequest([ops[o] EXCEPT !.kind = "get", !.id = id],
                                  "GET", ItemPath(id), FALSE)))
    /\ UNCHANGED <<resource, unloaded, dialogs, timers, view>>

CreateAdmin(o) ==
    /\ CanStart(o)
    /\ Step(o, Resumed(apiRequest([ops[o] EXCEPT !.kind = "create"],
                                  "POST", ListPath, FALSE)))
    /\ UNCHANGED <<resource, unloaded, dialogs, timers, view>>

UpdateAdmin(o, id) ==
    /\ CanStart(o)
    /\ Step(o, Resumed(apiRequest([ops[o] EXCEPT !.kind = "update", !.id = id],
                                  "PUT", ItemPath(id), FALSE)))
    /\ UNCHANGED <<resource, unloaded, dialogs, timers, view>>

\* confirmDialog: the new modalDiv goes to the end of document.body, and
\* getElementById('confirmModal' / 'confirmBtn' / 'cancelBtn') finds the
\* first such element of the document, which is shown and given the handlers
confirmDialog(o) ==
    LET added == Append(dialogs, [div |-> o, shown |-> FALSE,
                                  onConfirm |-> 0, onCancel |-> 0])
    IN  [added EXCEPT ![1].shown = TRUE, ![1].onConfirm = o, ![1].onCancel = o]

\* deleteAdmin(adminId) / deleteClient(clientId) up to `await confirmDialog`
DeleteAdmin(o, id) ==
    /\ CanStart(o)
    /\ dialogs' = confirmDialog(o)
    /\ Step(o, Log([ops[o] EXCEPT !.kind = "delete", !.id = id,
                                  !.pc = "confirm", !.confirmed = "pending"],
                   "confirm"))
    /\ UNCHANGED <<resource, unloaded, timers, view>>

\* the primary fetch of flow o settles: a response, or a rejection
FetchDone(o, outcome) ==
    /\ ~unloaded
    /\ ops[o].pc = "fetch"
    /\ Step(o, Resumed(IF outcome = NetErr THEN apiFetchFailed(ops[o])
                       ELSE apiResponse(ops[o], outcome)))
    /\ UNCHANGED <<resource, unloaded, dialogs, timers, view>>

\* the refresh fetch of flow o settles
RefreshDone(o, outcome) ==
    /\ ~unloaded
    /\ ops[o].pc = "refresh"
    /\ Step(o, Resumed(apiRefreshed(ops[o], outcome)))
    /\ UNCHANGED <<resource, unloaded, dialogs, timers, view>>

\* refreshResponse.json() settles
RefreshJsonDone(o, parsed) ==
    /\ ~unloaded
    /\ ops[o].pc = "rjson"
    /\ Step(o, Resumed(apiRefreshJson(ops[o], parsed)))
    /\ UNCHANGED <<resource, unloaded, dialogs, timers, view>>

\* response.json() of loadAdmins or getAdmin settles
JsonDone(o, parsed, body) ==
    /\ ~unloaded
    /\ ops[o].pc = "json"
    /\ IF ops[o].kind = "get"
       THEN /\ Step(o, getAdminJson(ops[o], parsed))
            /\ view' = view
       ELSE /\ Step(o, loadAdminsJson(ops[o], parsed, body))
            /\ view' = IF parsed /\ ~DisplayThrows(body)
                       THEN displayAdmins(body) ELSE view
    /\ UNCHANGED <<resource, unloaded, dialogs, timers>>

\* the onclick that flow h installed runs on the i-th modal:
\* modal.hide(); resolve(answer); setTimeout(() => modalDiv.remove(), 300)
OnClick(i, h, answer) ==
    /\ dialogs' = [dialogs EXCEPT ![i].shown = FALSE]
    /\ timers' = timers \cup {h}
    /\ IF ops[h].pc = "confirm"
       THEN Step(h, deleteAdminConfirmed(ops[h], answer))
       ELSE UNCHANGED <<cookies, ops, location, script>>   \* settled already

\* a click on #confirmBtn of the i-th modal
ClickConfirm(i) ==
    /\ ~unloaded
    /\ Settled
    /\ i \in 1..Len(dialogs)
    /\ dialogs[i].shown
    /\ dialogs[i].onConfirm # 0
    /\ OnClick(i, dialogs[i].onConfirm, TRUE)
    /\ UNCHANGED <<resource, unloaded, view>>

\* a click on #cancelBtn of the i-th modal
ClickCancel(i) ==
    /\ ~unloaded
    /\ Settled
    /\ i \in 1..Len(dialogs)
    /\ dialogs[i].shown
    /\ dialogs[i].onCancel # 0
    /\ OnClick(i, dialogs[i].onCancel, FALSE)
    /\ UNCHANGED <<resource, unloaded, view>>

\* the close control (data-bs-dismiss="modal") only hides the modal
ClickClose(i) ==
    /\ ~unloaded
    /\ Settled
    /\ i \in 1..Len(dialogs)
    /\ dialogs[i].shown
    /\ dialogs' = [dialogs EXCEPT ![i].shown = FALSE]
    /\ UNCHANGED <<cookies, resource, location, unloaded, ops, timers, view>>
    /\ UNCHANGED script

\* setTimeout(() => modalDiv.remove(), 300) of flow h fires
RemoveModalDiv(h) ==
    /\ ~unloaded
    /\ h \in timers
    /\ timers' = timers \ {h}
    /\ dialogs' = SelectSeq(dialogs, LAMBDA d : d.div # h)
    /\ UNCHANGED <<cookies, resource, location, unloaded, ops, view>>
    /\ UNCHANGED script

\* the navigation started by location.href = '/login' replaces the page
Unload ==
    /\ location = "/login"
    /\ ~unloaded
    /\ unloaded' = TRUE
    /\ UNCHANGED <<cookies, resource, location, ops, dialogs, timers, view>>
    /\ UNCHANGED script

Next ==
    \/ \E o \in Ops, public \in BOOLEAN : CallApiRequest(o, public)
    \/ \E o \in Ops : LoadAdmins(o)
    \/ \E o \in Ops, id \in Ids : GetAdmin(o, id)
    \/ \E o \in Ops : CreateAdmin(o)
    \/ \E o \in Ops, id \in Ids : UpdateAdmin(o, id)
    \/ \E o \in Ops, id \in Ids : DeleteAdmin(o, id)
    \/ \E o \in Ops, outcome \in Statuses \cup {NetErr} : FetchDone(o, outcome)
    \/ \E o \in Ops, outcome \in RefreshOutcomes : RefreshDone(o, outcome)
    \/ \E o \in Ops, parsed \in BOOLEAN : RefreshJsonDone(o, parsed)
    \/ \E o \in Ops, parsed \in BOOLEAN, body \in Bodies : JsonDone(o, parsed, body)
    \/ \E i \in 1..MaxOps : ClickConfirm(i)
    \/ \E i \in 1..MaxOps : ClickCancel(i)
    \/ \E i \in 1..MaxOps : ClickClose(i)
    \/ \E h \in Ops : RemoveModalDiv(h)
    \/ Unload

Spec == Init /\ [][Next]_vars

\* the list view alone: one load of the list, with collections long enough
\* to tell their order
MaxRows == 3    \* longest collection, and number of distinct records, rendered

RenderBodies ==
    { [kind |-> "null", items |-> <<>>], [kind |-> "object", items |-> <<>>] }
    \cup { [kind |-> "array", items |-> a] :
             a \in UNION { [1..n -> 1..MaxRows] : n \in 0..MaxRows } }

NextRender ==
    \/ LoadAdmins(1)
    \/ \E outcome \in Statuses \cup {NetErr} : FetchDone(1, outcome)
    \/ \E outcome \in RefreshOutcomes : RefreshDone(1, outcome)
    \/ \E parsed \in BOOLEAN : RefreshJsonDone(1, parsed)
    \/ \E parsed \in BOOLEAN, body \in RenderBodies : JsonDone(1, parsed, body)

SpecRender == Init /\ [][NextRender]_vars

\* the shell alone: no page is open
InitScript ==
    /\ cookies = <<>>
    /\ resource = "admins"
    /\ location = "page"
    /\ unloaded = FALSE
    /\ ops = [o \in Ops |-> IdleOp]
    /\ dialogs = <<>>
    /\ timers = {}
    /\ view = EmptyView
    /\ ScriptInit

NextScript ==
    \/ \E status \in ScriptStatuses, body \in TokenBodies : login(status, body)
    \/ \E status \in ScriptStatuses : get_user_info(status)
    \/ \E status \in ScriptStatuses, body \in TokenBodies : refresh_tokens(status, body)
    \/ \E status \in ScriptStatuses : test_protected_endpoint(status)
    \/ \E status \in ScriptStatuses : logout(status)

SpecScript == InitScript /\ [][NextScript]_vars

\* ------------------------------------------------------------ the claims
\* the latest apiRequest call of flow o: what it did, and whether it is over
Called(o)   == Count(ops[o].log, "call") > 0
Returned(o) == Called(o) /\ ops[o].ret.tag # "pending"
CL(o)       == CallLog(ops[o].log)
HttpCalls(o) == Count(CL(o), "fetch") + Count(CL(o), "refresh")

\* the primary fetch of the latest call was answered with this status
Answered(o, status) == Called(o) /\ ops[o].primary = <<status>>

\* C1: a call that is not public, made while no access token is available,
\* sends no HTTP call at all (no primary call, no refresh call) and redirects
\* to /login as the first thing it does.
C1_NoTokenNoCall ==
    \A o \in Ops :
        (Called(o) /\ ~ops[o].pub /\ ~Truthy(getAccessToken)) =>
            /\ ops[o].reqs = <<>>
            /\ HttpCalls(o) = 0
            /\ SubSeq(CL(o), 1, 2) = <<"call", "redirect">>
            /\ ops[o].ret = Undefined
            /\ location = "/login"

C1_Witness ==
    \E o \in Ops :
        /\ ops[o].kind = "create" /\ ops[o].pc = "done"
        /\ ~ops[o].pub /\ ~Truthy(getAccessToken)
        /\ Redirects(ops[o]) = 1

\* C2: when a non-public call gets 401, a refresh token is available and
\* POST /refresh succeeds, the original request is sent again and the answer
\* to that retry is what apiRequest returns, without a redirect.
C2_RetryAfterRefresh ==
    \A o \in Ops :
        (/\ Returned(o) /\ ~ops[o].pub
         /\ ops[o].primary # <<>> /\ ops[o].primary[1] = 401
         /\ ops[o].refresh = <<"ok", "parsed">>) =>
            /\ Count(CL(o), "fetch") = 2
            /\ Len(ops[o].primary) = 2
            /\ ops[o].ret = Response(ops[o].primary[Len(ops[o].primary)])
            /\ Count(CL(o), "redirect") = 0

\* C3: a non-public call answered 401 while a refresh token is available
\* issues exactly one refresh call, and every redirect of the call comes
\* after that refresh call has settled.
C3_OneRefreshBeforeRedirect ==
    \A o \in Ops :
        (Answered(o, 401) /\ ~ops[o].pub /\ Truthy(getRefreshToken)) =>
            /\ Count(CL(o), "refresh") = 1
            /\ Count(CL(o), "refreshed") <= 1
            /\ \A i \in 1..Len(CL(o)) :
                 CL(o)[i] = "redirect" =>
                    \E j, k \in 1..Len(CL(o)) :
                        /\ j < k /\ k < i
                        /\ CL(o)[j] = "refresh" /\ CL(o)[k] = "refreshed"
            /\ Returned(o) => Count(CL(o), "refreshed") = 1

C3_Witness ==
    \E o \in Ops :
        /\ Answered(o, 401) /\ ~ops[o].pub /\ Truthy(getRefreshToken)
        /\ Returned(o) /\ Count(CL(o), "redirect") = 1
        /\ ops[o].refresh = <<"fail">>

\* C4 as the specification has it: a network failure of the primary call is
\* caught by apiRequest, which redirects to /login and throws nothing.
C4_NetErrCaught ==
    \A o \in Ops :
        Answered(o, NetErr) =>
            /\ ops[o].ret.tag # "threw"
            /\ Count(CL(o), "redirect") = 1

\* C4 amended: a network failure of the primary call is not caught by
\* apiRequest: the exception reaches the caller, and apiRequest neither
\* redirects nor sends a refresh call.
C4_NetErrThrown ==
    \A o \in Ops :
        Answered(o, NetErr) =>
            /\ ops[o].ret = Threw
            /\ Count(CL(o), "redirect") = 0
            /\ Count(CL(o), "refresh") = 0
            /\ ops[o].kind \in {"api", "create", "update", "get"} =>
                    ops[o].out = "threw"

C4_Witness ==
    \E o \in Ops :
        /\ Answered(o, NetErr) /\ ops[o].kind = "update"
        /\ ops[o].pc = "done" /\ location = "page"

\* C5: when a non-public call gets 401, a refresh token is available and the
\* refresh call fails (non-ok status, a network error, or a body that does not
\* parse), the call redirects to /login exactly once and throws nothing.
C5_RefreshFailedOneRedirect ==
    \A o \in Ops :
        (/\ Returned(o) /\ Answered(o, 401) /\ ~ops[o].pub
         /\ ops[o].refresh \in {<<"fail">>, <<"neterr">>, <<"ok", "badjson">>}) =>
            /\ Count(CL(o), "redirect") = 1
            /\ ops[o].ret = Response(401)
            /\ ops[o].out # "threw"
            /\ location = "/login"

C5_Witness ==
    \E o \in Ops :
        /\ Returned(o) /\ Answered(o, 401) /\ ~ops[o].pub
        /\ ops[o].refresh = <<"neterr">>
        /\ ops[o].kind = "get" /\ ops[o].pc = "done"

\* C6: when a non-public call gets 401 and no refresh token is available, the
\* call sends no refresh call and no retry (one HTTP call in all), redirects to
\* /login, and returns the 401 response.
C6_NoRefreshToken ==
    \A o \in Ops :
        (Answered(o, 401) /\ ~ops[o].pub /\ ~Truthy(getRefreshToken)) =>
            /\ HttpCalls(o) = 1
            /\ Count(CL(o), "fetch") = 1
            /\ Count(CL(o), "redirect") = 1
            /\ ops[o].ret = Response(401)
            /\ location = "/login"

C6_Witness ==
    \E o \in Ops :
        /\ Answered(o, 401) /\ ~ops[o].pub /\ ~Truthy(getRefreshToken)
        /\ ops[o].kind = "load" /\ ops[o].pc = "done"

\* C7: a call with public = true never redirects to /login, whatever the
\* status of the response and whichever tokens are present.
C7_PublicNeverRedirects ==
    \A o \in Ops : ops[o].pub => Redirects(ops[o]) = 0

C7_Witness ==
    \E o \in Ops :
        /\ ops[o].pub /\ ops[o].pc = "done" /\ Answered(o, 401)
        /\ Truthy(getRefreshToken)

\* C8: when the primary call is answered with a status other than 401, or the
\* call is public, apiRequest returns that response and sends no refresh call
\* and makes no redirect.
C8_ResponseUnmodified ==
    \A o \in Ops :
        (/\ Called(o) /\ Len(ops[o].primary) = 1 /\ ops[o].primary[1] # NetErr
         /\ (ops[o].primary[1] # 401 \/ ops[o].pub)) =>
            /\ ops[o].ret = Response(ops[o].primary[1])
            /\ HttpCalls(o) = 1
            /\ Count(CL(o), "refresh") = 0
            /\ Count(CL(o), "redirect") = 0

C8_Witness ==
    \E o \in Ops :
        /\ Answered(o, 500) /\ ~ops[o].pub /\ ops[o].pc = "done"
        /\ Truthy(getRefreshToken)

\* C9: a delete sends its DELETE only after its confirmation resolved to yes;
\* when it resolved to cancel the operation ends with no HTTP call, no
\* notification and no reload.
C9_DeleteNeedsConfirmation ==
    \A o \in Ops :
        ops[o].kind = "delete" =>
            /\ ops[o].reqs # <<>> => ops[o].confirmed = "yes"
            /\ ops[o].confirmed = "no" =>
                  /\ ops[o].pc = "done"
                  /\ ops[o].reqs = <<>>
                  /\ ops[o].notes = <<>>
                  /\ Count(ops[o].log, "call") = 0
                  /\ Count(ops[o].log, "reload") = 0

C9_Witness ==
    \E o \in Ops :
        /\ ops[o].kind = "delete" /\ ops[o].confirmed = "no"
        /\ ops[o].pc = "done" /\ Truthy(getAccessToken)

\* the DELETE of flow o was answered with an ok response
DeleteOk(o) ==
    ops[o].rets[1].tag = "response" /\ Ok(ops[o].rets[1].status)

\* C10: after a confirmed delete the collection is reloaded if and only if
\* the DELETE response is ok; when the DELETE fails (non-ok status, network
\* error) a notification is shown, nothing is reloaded and the flow renders
\* nothing.
C10_ReloadIffOk ==
    \A o \in Ops :
        (ops[o].kind = "delete" /\ ops[o].confirmed = "yes" /\ ops[o].rets # <<>>) =>
            /\ Count(ops[o].log, "reload") = (IF DeleteOk(o) THEN 1 ELSE 0)
            /\ ops[o].reqs # <<>> => /\ ops[o].reqs[1].method = "DELETE"
                                     /\ ops[o].reqs[1].path = ItemPath(ops[o].id)
            /\ DeleteOk(o) => /\ Len(ops[o].reqs) >= 2
                              /\ ops[o].reqs[2].method = "GET"
                              /\ ops[o].reqs[2].path = ListPath
            /\ ~DeleteOk(o) =>
                  /\ ops[o].pc = "done"
                  /\ Count(ops[o].log, "notify") = 1
                  /\ ops[o].notes[1].type = "danger"
                  /\ Count(ops[o].log, "render") = 0
                  /\ Len(ops[o].rets) = 1

C10_Witness ==
    \E o \in Ops :
        /\ ops[o].kind = "delete" /\ ops[o].confirmed = "yes"
        /\ ops[o].rets # <<>> /\ DeleteOk(o)
        /\ ops[o].pc = "done"
        /\ Count(ops[o].log, "render") = 1
        /\ view # EmptyView

\* flow o is loadAdmins / loadClients, called by the page or by a delete
IsLoad(o) == ops[o].kind = "load" \/ ops[o].stage = "reload"

\* the list GETs and the failure notifications of flow o
ListGets(o) ==
    Len(SelectSeq(ops[o].reqs, LAMBDA q : q.method = "GET" /\ q.path = ListPath))
Dangers(o) ==
    Len(SelectSeq(ops[o].notes, LAMBDA n : n.type = "danger"))

\* C11: a load sends the list GET at most once; on an ok response whose body
\* is the JSON array, that array goes to the renderer and no failure
\* notification is shown; on a non-ok response or a network error one failure
\* notification is shown and the renderer is not called.
C11_LoadOnce ==
    \A o \in Ops :
        IsLoad(o) =>
            /\ ListGets(o) <= 1
            /\ Count(CL(o), "fetch") <= 1
            /\ Count(ops[o].log, "render") <= 1
            /\ (/\ ops[o].pc = "done" /\ ops[o].ret.tag = "response"
                /\ Ok(ops[o].ret.status)
                /\ ops[o].json # <<>> /\ ops[o].json[1].parsed
                /\ ops[o].json[1].body.kind = "array") =>
                    /\ Count(ops[o].log, "render") = 1
                    /\ view = displayAdmins(ops[o].json[1].body)
                    /\ Dangers(o) = 0
            /\ (/\ ops[o].pc = "done"
                /\ \/ ops[o].ret.tag = "threw"
                   \/ ops[o].ret.tag = "response" /\ ~Ok(ops[o].ret.status)) =>
                    /\ Dangers(o) = 1
                    /\ Count(ops[o].log, "render") = 0
                    /\ ListGets(o) = 1

C11_Witness ==
    \E o \in Ops :
        /\ ops[o].kind = "load" /\ ops[o].pc = "done"
        /\ ops[o].ret = Response(200) /\ ListGets(o) = 1
        /\ ops[o].json # <<>> /\ ops[o].json[1].parsed
        /\ ops[o].json[1].body.kind = "array"
        /\ ops[o].json[1].body.items # <<>>
        /\ Count(ops[o].log, "render") = 1

\* the latest apiRequest call of flow o failed: no token, a rejected fetch,
\* or a response that is not ok
Failed(o) ==
    \/ ops[o].ret.tag \in {"undefined", "threw"}
    \/ ops[o].ret.tag = "response" /\ ~Ok(ops[o].ret.status)

\* C12 as the specification has it: every operation that fails ends with a
\* notification or a redirect, and no failure escapes as an exception with
\* neither.
C12_FailureNotifiesOrRedirects ==
    \A o \in Ops :
        (/\ ops[o].kind \in {"load", "get", "create", "update", "delete"}
         /\ ops[o].pc = "done" /\ Called(o) /\ Failed(o)) =>
            /\ ops[o].notes # <<>> \/ Redirects(ops[o]) > 0

\* C12 amended: a load or a delete that fails ends with a failure
\* notification and throws nothing.  A get, create or update that fails for a
\* missing token or a 401 ends with a redirect; its network failure escapes to
\* the caller as an exception, and its other non-ok status is handed back to
\* the caller, in both cases with no notification and no redirect.
C12_FailureByOperation ==
    \A o \in Ops :
        (ops[o].pc = "done" /\ Called(o) /\ Failed(o)) =>
            /\ (ops[o].kind \in {"load", "delete"}) =>
                    /\ Dangers(o) = 1
                    /\ ops[o].out = "returned"
            /\ (ops[o].kind \in {"get", "create", "update"}) =>
                    /\ ops[o].notes = <<>>
                    /\ (ops[o].ret.tag = "undefined" \/ ops[o].ret = Response(401))
                            => Redirects(ops[o]) = 1
                    /\ ops[o].ret.tag = "threw" =>
                            /\ ops[o].out = "threw"
                            /\ Redirects(ops[o]) = 0
                    /\ (ops[o].ret.tag = "response" /\ ops[o].ret.status # 401) =>
                            /\ ops[o].out = "returned"
                            /\ Redirects(ops[o]) = 0

C12_Witness ==
    \E o \in Ops :
        /\ ops[o].kind = "create" /\ ops[o].pc = "done"
        /\ ops[o].ret.tag = "threw" /\ ops[o].out = "threw"
        /\ ops[o].notes = <<>> /\ location = "page"

\* C13: a redirect is terminal: after apiRequest has redirected to /login,
\* the flow that called it shows no notification, renders nothing, reloads
\* nothing and sends no further HTTP call.
C13_RedirectIsTerminal ==
    \A o \in Ops :
        \A i, j \in 1..Len(ops[o].log) :
            (i < j /\ ops[o].log[i] = "redirect") =>
                ops[o].log[j] \notin {"notify", "render", "reload", "fetch", "refresh"}

\* C14: the client never writes the session credentials: no step of any
\* operation, a refresh and a redirect included, changes the stored access
\* token or refresh token.
C14_CookiesNeverWritten ==
    [][/\ cookies' = cookies
       /\ getAccessToken' = getAccessToken
       /\ getRefreshToken' = getRefreshToken]_vars

C14_Witness ==
    \E o \in Ops :
        /\ ops[o].pc = "done" /\ ops[o].refresh = <<"ok", "parsed">>
        /\ Redirects(ops[o]) = 1
        /\ getAccessToken = "a1" /\ getRefreshToken = "r1"

\* C15: in the token script, once logout has made its call, both local
\* tokens are cleared whatever the status of the answer (200, any other
\* status, no answer); a logout that finds no refresh token makes no call
\* and leaves the refresh token empty.
C15_LogoutClearsTokens ==
    sh.cmd = "logout" =>
        /\ REFRESH_TOKEN = ""
        /\ sh.called <=> sh.prevRefresh # ""
        /\ sh.called => ACCESS_TOKEN = "" /\ sh.rc = 0

C15_Witness ==
    /\ sh.cmd = "logout" /\ sh.called /\ sh.status = 500
    /\ sh.prevAccess = "t1" /\ sh.prevRefresh = "t2"
    /\ ACCESS_TOKEN = "" /\ REFRESH_TOKEN = ""

\* the body of the last call carries both token fields
HasBoth(body) ==
    body.json /\ body.access_token # NoField /\ body.refresh_token # NoField

\* C16: a login whose POST /token is answered 200 with access_token A and
\* refresh_token B leaves ACCESS_TOKEN = A and REFRESH_TOKEN = B, whatever
\* was held before, and returns success.
C16_LoginStoresTokens ==
    (sh.cmd = "login" /\ sh.status = 200 /\ HasBoth(sh.body)) =>
        /\ ACCESS_TOKEN = sh.body.access_token
        /\ REFRESH_TOKEN = sh.body.refresh_token
        /\ sh.rc = 0

C16_Witness ==
    /\ sh.cmd = "login" /\ sh.status = 200 /\ HasBoth(sh.body)
    /\ sh.prevAccess = "t2" /\ sh.prevRefresh = ""
    /\ ACCESS_TOKEN = "t1" /\ REFRESH_TOKEN = "t2"

\* C20: a login that fails (a status other than 200, or a 200 answer from
\* which access_token or refresh_token cannot be extracted) returns failure
\* and leaves both tokens as they were held before.
C20_FailedLoginKeepsTokens ==
    (sh.cmd = "login" /\ (sh.status # 200 \/ ~HasBoth(sh.body))) =>
        /\ sh.rc = 1
        /\ ACCESS_TOKEN = sh.prevAccess
        /\ REFRESH_TOKEN = sh.prevRefresh

\* the collection that the load of flow 1 handed to the renderer
Rendered == ops[1].pc = "done" /\ Count(ops[1].log, "render") = 1
Given    == ops[1].json[1].body

\* C17: the renderer gives, for a collection of N >= 1 items, exactly N item
\* rows, the i-th row made of the i-th item (its id cell, edit link and
\* delete button), and no placeholder; for an empty or a missing collection
\* it gives the empty-state placeholder and no item row.
C17_RowsInOrder ==
    Rendered =>
        IF Given.kind = "array" /\ Len(Given.items) >= 1
        THEN /\ ~view.placeholder
             /\ Len(view.rows) = Len(Given.items)
             /\ \A i \in 1..Len(Given.items) :
                    /\ view.rows[i].id = Given.items[i]
                    /\ view.rows[i].edit = Given.items[i]
                    /\ view.rows[i].del = Given.items[i]
        ELSE view.placeholder /\ view.rows = <<>>

C17_Witness ==
    /\ Rendered
    /\ Given.items = <<2, 1, 3>>
    /\ Len(view.rows) = 3 /\ view.rows[1].id = 2 /\ view.rows[3].id = 3

\* the i-th modal is dismissed by this step: it was shown and is hidden now
Dismissed(i) ==
    /\ i \in 1..Len(dialogs) /\ dialogs[i].shown
    /\ i \in 1..Len(dialogs') /\ dialogs'[i].div = dialogs[i].div
    /\ ~dialogs'[i].shown

\* C18: whichever way the user dismisses the confirmation dialog (confirm,
\* cancel or the close control), the delete that waits on that dialog leaves
\* its pending confirmation in that step, so that no delete stays suspended.
C18_DismissalResolves ==
    [][\A i \in 1..MaxOps :
          (Dismissed(i) /\ dialogs[i].onConfirm # 0
                        /\ ops[dialogs[i].onConfirm].pc = "confirm")
              => ops'[dialogs[i].onConfirm].pc # "confirm"]_vars

\* flow o is resumed from its confirmation by this step
Answers(o) == ops[o].pc = "confirm" /\ ops'[o].pc # "confirm"

\* C19: with several deletes pending confirmation, a click on a dialog
\* resolves the delete that opened that dialog and no other, so that a DELETE
\* is sent only for the record whose own dialog was confirmed.
C19_ClickResolvesOwnDelete ==
    [][\A i \in 1..MaxOps, o \in Ops :
          (Dismissed(i) /\ Answers(o)) => dialogs[i].div = o]_vars
====
